---------------------------- MODULE Spec2Model ----------------------------
(***************************************************************************)
(* GenoVexis: the CADD range-retrieval pipeline of CADD.py (partition,     *)
(* thread-pool fetch, merge in the calling thread, mean, display) and the  *)
(* gene pathogenicity score of distrib.py.                                 *)
(*                                                                         *)
(* Text of a QLineEdit is a tuple of one-character strings.  A float is    *)
(* an exact rational <<numerator, denominator>> (denominator > 0); the     *)
(* scores used are small integers, so binary rounding plays no part.       *)
(***************************************************************************)
EXTENDS Integers, Sequences, FiniteSets, TLC

VARIABLES
    chrom_entry,    \* CADD.py: text of self.chrom_entry
    start_entry,    \* CADD.py: text of self.start_entry
    end_entry,      \* CADD.py: text of self.end_entry
    remote,         \* the responses the remote service can give in this run
    pc,             \* position of the GUI thread inside run_analysis
    msgbox,         \* text of the QMessageBox shown, "" when none
    result_text,    \* lines inserted into self.result_text
    chunks,         \* query_large_range: the list of chunk ranges
    fut,            \* state of the future of each chunk
    outcome,        \* what the future of each chunk holds once finished
    yielded,        \* futures as_completed has handed to the loop
    raw_scores,     \* query_large_range: raw_scores
    phred_scores,   \* query_large_range: phred_scores
    printed,        \* chunks whose "Error: Unable to retrieve" line was printed
    pending,        \* exception travelling out of query_large_range, "" when none
    ret,            \* value returned by query_large_range
    part,           \* a direct call of the chunk list comprehension
    gene_entry,     \* distrib.py: text of self.gene_entry
    result_label,   \* distrib.py: what self.result_label shows
    plot,           \* distrib.py: what the canvas shows
    gene_msg,       \* distrib.py: text of the QMessageBox shown, "" when none
    sc              \* direct calls of calculate_gene_score / interpret_score

caddVars == <<chrom_entry, start_entry, end_entry, remote, pc, msgbox,
              result_text, chunks, fut, outcome, yielded, raw_scores,
              phred_scores, printed, pending, ret>>
geneVars == <<gene_entry, result_label, plot, gene_msg>>
vars == <<caddVars, part, geneVars, sc>>

---------------------------------------------------------------------------
(* Bounds of the model. *)

\* end positions offered to the user: 1 + k * (chunk_size / 2), k <= MaxHalves
MaxHalves == 4
\* number of chunks of the long interval that overfills the pool
PoolChunks == 11
\* a direct call of the partition: positions -MaxPos..MaxPos, sizes 1..MaxSize
MaxPos == 4
MaxSize == 3
\* gene counts 0..MaxCount, at most MaxGenes tuples scored together
MaxCount == 1
MaxGenes == 2
\* number of tokens typed into the gene field
MaxTokens == 3

---------------------------------------------------------------------------
(* Program constants. *)

chunk_size == 10000
max_workers == 10

None == <<>>

Min(a, b) == IF a <= b THEN a ELSE b

---------------------------------------------------------------------------
(* str.strip() and int() on the text of an entry field. *)

Digits == <<"0", "1", "2", "3", "4", "5", "6", "7", "8", "9">>

IsDigit(c) == \E i \in 1..10 : Digits[i] = c

DigitVal(c) == (CHOOSE i \in 1..10 : Digits[i] = c) - 1

RECURSIVE LStrip(_)
LStrip(t) == IF t # <<>> /\ Head(t) = " " THEN LStrip(Tail(t)) ELSE t

RECURSIVE RStrip(_)
RStrip(t) ==
    IF t # <<>> /\ t[Len(t)] = " " THEN RStrip(SubSeq(t, 1, Len(t) - 1)) ELSE t

strip(t) == RStrip(LStrip(t))

RECURSIVE DigitsValue(_)
DigitsValue(t) ==
    IF t = <<>> THEN 0
    ELSE 10 * DigitsValue(SubSeq(t, 1, Len(t) - 1)) + DigitVal(t[Len(t)])

AllDigits(t) == t # <<>> /\ \A i \in 1..Len(t) : IsDigit(t[i])

\* int(text): [ok |-> FALSE] stands for ValueError
int(t) ==
    LET s == strip(t)
        signed == s # <<>> /\ Head(s) \in {"-", "+"}
        body == IF signed THEN Tail(s) ELSE s
    IN  IF AllDigits(body)
        THEN [ok |-> TRUE,
              val |-> IF signed /\ Head(s) = "-" THEN 0 - DigitsValue(body)
                      ELSE DigitsValue(body)]
        ELSE [ok |-> FALSE, val |-> 0]

\* the decimal text of an integer (used to write the inputs down)
RECURSIVE NatText(_)
NatText(n) ==
    IF n < 10 THEN <<Digits[n + 1]>>
    ELSE NatText(n \div 10) \o <<Digits[(n % 10) + 1]>>

IntText(n) == IF n < 0 THEN <<"-">> \o NatText(0 - n) ELSE NatText(n)

---------------------------------------------------------------------------
(* The chunk list of query_large_range. *)

\* list(range(start, end, step)) for step > 0
RECURSIVE range(_, _, _)
range(start, end, step) ==
    IF start >= end THEN <<>>
    ELSE <<start>> \o range(start + step, end, step)

\* ChunkEnd without the min() against end
ChunkEndUnclamped(chunk_start, size, end) == chunk_start + size

ChunkEnd(chunk_start, size, end) == Min(chunk_start + size, end)

Chunks(chrom, start, end, size) ==
    LET starts == range(start, end, size)
    IN  [i \in 1..Len(starts) |->
            <<chrom, starts[i], ChunkEnd(starts[i], size, end)>>]

---------------------------------------------------------------------------
(* The remote service and query_cadd_range. *)

\* one column of a response row: numeric text, or text float() rejects
Num(v) == [num |-> TRUE, v |-> v]
Txt == [num |-> FALSE, v |-> 0]

\* float(field): [ok |-> FALSE] stands for ValueError
float(f) == [ok |-> f.num, val |-> f.v]

Header == <<Txt, Txt, Txt, Txt, Txt, Txt>>
\* columns: Chrom, Pos, Ref, Alt, RawScore, PHRED
Row(pos, raw, phred) == <<Txt, Num(pos), Txt, Txt, raw, phred>>

EmptyJson == <<>>
HeaderOnly == <<Header>>
TwoRows == <<Header, Row(1, Num(3), Num(25)), Row(2, Num(-1), Num(8))>>
BadRaw == <<Header, Row(1, Num(3), Num(25)), Row(2, Txt, Num(8))>>
BadPhred == <<Header, Row(1, Num(3), Num(25)), Row(2, Num(-1), Txt)>>
ShortRow == <<Header, <<Txt, Num(1), Txt, Txt, Num(3)>> >>

Http(status, json) == [net |-> "ok", status |-> status, json |-> json]
NetDown == [net |-> "ConnectionError", status |-> 0, json |-> <<>>]

\* everything the service may answer to one request
Rich == {Http(200, EmptyJson), Http(200, HeaderOnly), Http(200, TwoRows),
         Http(200, BadRaw), Http(200, BadPhred), Http(200, ShortRow),
         Http(500, EmptyJson), NetDown}
\* the service cannot be reached
Down == {NetDown}

\* what the future of a chunk holds after query_cadd_range(resp) ran in a worker:
\* the exception requests.get raised, or the returned value (None or the JSON)
query_cadd_range(resp) ==
    IF resp.net # "ok"
    THEN [exc |-> resp.net, none |-> FALSE, data |-> <<>>, print |-> FALSE]
    ELSE IF resp.status = 200
    THEN [exc |-> "", none |-> FALSE, data |-> resp.json, print |-> FALSE]
    ELSE [exc |-> "", none |-> TRUE, data |-> <<>>, print |-> TRUE]

NoOutcome == [exc |-> "", none |-> TRUE, data |-> <<>>, print |-> FALSE]

\* "if data:" -- None and the empty list are falsy
Truthy(o) == ~o.none /\ o.data # <<>>

---------------------------------------------------------------------------
(* The merge of one chunk's rows into a series. *)

RECURSIVE Reversed(_)
Reversed(s) == IF s = <<>> THEN <<>> ELSE Reversed(Tail(s)) \o <<Head(s)>>

\* data[2:], one row too many skipped
RowsOfSkipTwo(data) == IF Len(data) >= 2 THEN Tail(Tail(data)) ELSE <<>>

\* data[1:]
RowsOf(data) == IF data = <<>> THEN <<>> ELSE Tail(data)

\* list.extend(float(variant[col]) for variant in rows): the items produced
\* before a failing row stay in the list.  Every item carries the chunk and
\* the Pos column of the row it came from (src), which the program does not
\* store.
RECURSIVE extend(_, _, _, _, _)
extend(list, rows, col, c, k) ==
    IF k > Len(rows) THEN [list |-> list, exc |-> ""]
    ELSE IF Len(rows[k]) < col + 1 THEN [list |-> list, exc |-> "IndexError"]
    ELSE IF ~float(rows[k][col + 1]).ok THEN [list |-> list, exc |-> "ValueError"]
    ELSE extend(Append(list, [v |-> float(rows[k][col + 1]).val, src |-> <<c, rows[k][2].v>>]),
                rows, col, c, k + 1)

\* PhredRows with the rows walked last to first
PhredRowsReversed(data) == Reversed(RowsOf(data))

PhredRows(data) == RowsOf(data)

---------------------------------------------------------------------------
(* The thread pool of query_large_range. *)

Running(f) == {c \in DOMAIN f : f[c] = "running"}

\* ThreadPoolExecutor without a bound on its worker threads
SlotFreeUnbounded(f) == TRUE

\* ThreadPoolExecutor(max_workers=10): a queued call starts on a free worker
SlotFree(f) == Cardinality(Running(f)) < max_workers

\* the work queue is first in, first out: c is the oldest call not yet started
HeadOfQueue(f, c) == f[c] = "queued" /\ \A d \in DOMAIN f : d < c => f[d] # "queued"

AllFinished(f) == \A c \in DOMAIN f : f[c] = "finished"

\* leaving the with block without waiting: shutdown(wait=False)
ShutdownNoWait(f) == TRUE

\* leaving the with block: executor.shutdown(wait=True)
ShutdownDone(f) == AllFinished(f)

---------------------------------------------------------------------------
(* calculate_average_score and interpret_scores. *)

RECURSIVE Sum(_)
Sum(list) == IF list = <<>> THEN 0 ELSE Head(list).v + Sum(Tail(list))

calculate_average_score(scores) ==
    IF scores = <<>> THEN None ELSE <<Sum(scores), Len(scores)>>

\* thresholds on the mean m = <<n, d>> are compared as n >= t * d
RawCategory(m) ==
    IF m # None
    THEN IF m[1] > 0 THEN "somewhat deleterious" ELSE "likely benign"
    ELSE "No RawScore data available"

PhredCategory(m) ==
    IF m # None
    THEN IF m[1] >= 30 * m[2] THEN "highly deleterious"
         ELSE IF m[1] >= 20 * m[2] THEN "likely deleterious"
         ELSE IF m[1] >= 10 * m[2] THEN "potentially deleterious"
         ELSE "likely benign"
    ELSE "No PHRED score data available"

interpret_scores(average_raw_score, average_phred_score) ==
    [line |-> "Interpretation of Scores",
     values |-> <<RawCategory(average_raw_score),
                  PhredCategory(average_phred_score)>>]

\* f"{x:.4f}": the mean in ten-thousandths, rounded; [ok |-> FALSE] stands
\* for the TypeError that formatting None raises
Format4(m) ==
    IF m = None THEN [ok |-> FALSE, val |-> 0]
    ELSE [ok |-> TRUE, val |-> (20000 * m[1] + m[2]) \div (2 * m[2])]

Line(text, values) == [line |-> text, values |-> values]

\* "if raw_scores and phred_scores:"
HaveScores(raw, phred) == raw # <<>> /\ phred # <<>>

---------------------------------------------------------------------------
(* The inputs a run of the CADD tool starts from. *)

JunkTexts == {<<>>, <<" ">>, <<"a">>, <<"1", "a">>}

ChromTexts == {<<>>, <<" ">>, <<"2", "2">>}

StartTexts == {IntText(1), IntText(-3)} \cup JunkTexts

EndTexts ==
    {IntText(1 + k * (chunk_size \div 2)) : k \in 0..MaxHalves}
        \cup {IntText(-3), <<" ", "7", " ">>} \cup JunkTexts

\* the end of the long interval: PoolChunks chunks from position 1
PoolEndText == IntText(1 + PoolChunks * chunk_size)

CaddIdle ==
    /\ pc = "idle"
    /\ msgbox = ""
    /\ result_text = <<>>
    /\ chunks = <<>>
    /\ fut = <<>>
    /\ outcome = <<>>
    /\ yielded = {}
    /\ raw_scores = <<>>
    /\ phred_scores = <<>>
    /\ printed = {}
    /\ pending = ""
    /\ ret = <<>>

\* any text in the three fields and a service that answers anything, or the
\* long interval while the service cannot be reached
CaddInit ==
    /\ \/ /\ chrom_entry \in ChromTexts
          /\ start_entry \in StartTexts
          /\ end_entry \in EndTexts
          /\ remote = Rich
       \/ /\ chrom_entry = <<"2", "2">>
          /\ start_entry = IntText(1)
          /\ end_entry = PoolEndText
          /\ remote = Down
    /\ CaddIdle

---------------------------------------------------------------------------
(* CADD.py: run_analysis and query_large_range. *)

\* the click on "Run Analysis": validation, then the chunk list
RunAnalysis ==
    /\ pc = "idle"
    /\ LET chrom == strip(chrom_entry)
           start == strip(start_entry)
           end == strip(end_entry)
       IN  IF chrom = <<>> \/ start = <<>> \/ end = <<>>
           THEN /\ msgbox' = "Please fill in all fields."
                /\ pc' = "done"
                /\ UNCHANGED <<result_text, chunks, fut, outcome>>
           ELSE IF ~int(start).ok \/ ~int(end).ok
           THEN /\ msgbox' = "Start and end positions must be integers."
                /\ pc' = "done"
                /\ UNCHANGED <<result_text, chunks, fut, outcome>>
           ELSE LET cs == Chunks(chrom, int(start).val, int(end).val, chunk_size)
                IN  /\ result_text' = <<Line("Querying CADD API (this may take a while)...", <<>>)>>
                    /\ chunks' = cs
                    /\ fut' = [c \in DOMAIN cs |-> "new"]
                    /\ outcome' = [c \in DOMAIN cs |-> NoOutcome]
                    /\ pc' = IF cs = <<>> THEN "collect" ELSE "submit"
                    /\ UNCHANGED msgbox
    /\ UNCHANGED <<chrom_entry, start_entry, end_entry, remote, yielded,
                   raw_scores, phred_scores, printed, pending, ret>>

\* executor.submit(self.query_cadd_range, *chunk), one chunk after the other
Submit(c) ==
    /\ pc = "submit"
    /\ fut[c] = "new"
    /\ \A d \in DOMAIN fut : d < c => fut[d] # "new"
    /\ fut' = [fut EXCEPT ![c] = "queued"]
    /\ pc' = IF c = Len(chunks) THEN "collect" ELSE "submit"
    /\ UNCHANGED <<chrom_entry, start_entry, end_entry, remote, msgbox,
                   result_text, chunks, outcome, yielded, raw_scores,
                   phred_scores, printed, pending, ret>>

\* a worker thread takes the oldest queued call and enters requests.get
StartFetch(c) ==
    /\ HeadOfQueue(fut, c)
    /\ SlotFree(fut)
    /\ fut' = [fut EXCEPT ![c] = "running"]
    /\ UNCHANGED <<chrom_entry, start_entry, end_entry, remote, pc, msgbox,
                   result_text, chunks, outcome, yielded, raw_scores,
                   phred_scores, printed, pending, ret>>

\* requests.get answers (or fails) and query_cadd_range finishes in the worker
FinishFetch(c) ==
    /\ fut[c] = "running"
    /\ \E resp \in remote :
          LET o == query_cadd_range(resp)
          IN  /\ outcome' = [outcome EXCEPT ![c] = o]
              /\ printed' = IF o.print THEN printed \cup {c} ELSE printed
    /\ fut' = [fut EXCEPT ![c] = "finished"]
    /\ UNCHANGED <<chrom_entry, start_entry, end_entry, remote, pc, msgbox,
                   result_text, chunks, yielded, raw_scores, phred_scores,
                   pending, ret>>

\* one turn of "for future in as_completed(futures)": future.result(), then
\* the two extend calls.  An exception ends the loop and discards the
\* as_completed generator together with its record of what it yielded.
Collect(c) ==
    /\ pc = "collect"
    /\ fut[c] = "finished"
    /\ c \notin yielded
    /\ LET o == outcome[c]
           r == extend(raw_scores, RowsOf(o.data), 4, c, 1)
           p == extend(phred_scores, PhredRows(o.data), 5, c, 1)
       IN  IF o.exc # ""
           THEN /\ pending' = o.exc
                /\ pc' = "unwind"
                /\ yielded' = {}
                /\ UNCHANGED <<raw_scores, phred_scores>>
           ELSE IF ~Truthy(o)
           THEN /\ yielded' = yielded \cup {c}
                /\ UNCHANGED <<raw_scores, phred_scores, pending, pc>>
           ELSE IF r.exc # ""
           THEN /\ raw_scores' = r.list
                /\ pending' = r.exc
                /\ pc' = "unwind"
                /\ yielded' = {}
                /\ UNCHANGED phred_scores
           ELSE /\ raw_scores' = r.list
                /\ phred_scores' = p.list
                /\ pending' = p.exc
                /\ pc' = IF p.exc # "" THEN "unwind" ELSE "collect"
                /\ yielded' = IF p.exc # "" THEN {} ELSE yielded \cup {c}
    /\ UNCHANGED <<chrom_entry, start_entry, end_entry, remote, msgbox,
                   result_text, chunks, fut, outcome, printed, ret>>

\* as_completed is exhausted, the with block is left, the two lists are returned
Return ==
    /\ pc = "collect"
    /\ yielded = DOMAIN fut
    /\ ShutdownDone(fut)
    /\ ret' = <<raw_scores, phred_scores>>
    /\ pc' = "returned"
    /\ UNCHANGED <<chrom_entry, start_entry, end_entry, remote, msgbox,
                   result_text, chunks, fut, outcome, yielded, raw_scores,
                   phred_scores, printed, pending>>

\* an exception leaves the with block and then run_analysis, which catches nothing
Propagate ==
    /\ pc = "unwind"
    /\ ShutdownDone(fut)
    /\ pc' = "raised"
    /\ UNCHANGED <<chrom_entry, start_entry, end_entry, remote, msgbox,
                   result_text, chunks, fut, outcome, yielded, raw_scores,
                   phred_scores, printed, pending, ret>>

\* run_analysis after query_large_range returned
ShowResults ==
    /\ pc = "returned"
    /\ LET average_raw_score == calculate_average_score(ret[1])
           average_phred_score == calculate_average_score(ret[2])
           f1 == Format4(average_raw_score)
           f2 == Format4(average_phred_score)
           l1 == Line("Average CADD RawScore", <<f1.val>>)
           l2 == Line("Average CADD PHRED score", <<f2.val>>)
       IN  IF HaveScores(ret[1], ret[2])
           THEN IF ~f1.ok
                THEN /\ pending' = "TypeError"
                     /\ pc' = "raised"
                     /\ UNCHANGED result_text
                ELSE IF ~f2.ok
                THEN /\ pending' = "TypeError"
                     /\ pc' = "raised"
                     /\ result_text' = Append(result_text, l1)
                ELSE /\ result_text' = result_text \o
                          <<l1, l2, interpret_scores(average_raw_score,
                                                     average_phred_score)>>
                     /\ pc' = "done"
                     /\ UNCHANGED pending
           ELSE /\ result_text' = Append(result_text,
                          Line("No variants found in the specified range.", <<>>))
                /\ pc' = "done"
                /\ UNCHANGED pending
    /\ UNCHANGED <<chrom_entry, start_entry, end_entry, remote, msgbox,
                   chunks, fut, outcome, yielded, raw_scores, phred_scores,
                   printed, ret>>

---------------------------------------------------------------------------
(* A direct call of the chunk list comprehension with any chunk_size. *)

PartInit ==
    part \in [start : (0 - MaxPos)..MaxPos, end : (0 - MaxPos)..MaxPos,
              size : 1..MaxSize, chunks : {<<>>}, called : {FALSE}]

PartIdle == part = [start |-> 0, end |-> 0, size |-> 1, chunks |-> <<>>,
                    called |-> FALSE]

PartitionCall ==
    /\ ~part.called
    /\ part' = [part EXCEPT
                  !.chunks = Chunks(<<"2", "2">>, part.start, part.end, part.size),
                  !.called = TRUE]

---------------------------------------------------------------------------
(* distrib.py: the dataset, calculate_gene_score and interpret_score. *)

data == [g \in {"MYO7A", "USH2A"} |->
            IF g = "MYO7A" THEN <<90, 676, 755, 254, 167>>
            ELSE <<160, 1184, 1377, 422, 454>>]

RECURSIVE GCD(_, _)
GCD(a, b) == IF b = 0 THEN a ELSE GCD(b, a % b)

\* a rational in lowest terms
Q(n, d) == LET g == GCD(IF n < 0 THEN 0 - n ELSE n, d) IN <<n \div g, d \div g>>

QAdd(a, b) ==
    LET g == GCD(a[2], b[2])
    IN  Q(a[1] * (b[2] \div g) + b[1] * (a[2] \div g), (a[2] \div g) * b[2])

QLe(a, b) == a[1] * b[2] <= b[1] * a[2]

QLt(a, b) == a[1] * b[2] < b[1] * a[2]

Zeros5 == [i \in 1..5 |-> <<0, 1>>]

\* weights with the last one mistyped
weightsSlip == <<1, 2, 5, 8, 11>>

weights == <<1, 2, 5, 8, 10>>

\* np.sum of five numbers
Sum5(v) == v[1] + v[2] + v[3] + v[4] + v[5]

calculate_gene_score(gene_data) ==
    LET total == Sum5(gene_data)
    IN  IF total = 0
        THEN [relative_density |-> Zeros5, avg_score |-> <<5, 1>>]
        ELSE [relative_density |-> [i \in 1..5 |-> Q(gene_data[i], total)],
              avg_score |-> Q(Sum5([i \in 1..5 |-> gene_data[i] * weights[i]]),
                              total)]

interpret_score(avg_score) ==
    IF QLe(<<17, 2>>, avg_score) /\ QLe(avg_score, <<10, 1>>) THEN "Pathogenic"
    ELSE IF QLe(<<13, 2>>, avg_score) /\ QLt(avg_score, <<17, 2>>)
    THEN "Likely Pathogenic"
    ELSE IF QLe(<<9, 2>>, avg_score) /\ QLt(avg_score, <<13, 2>>)
    THEN "Uncertain/Conflicting"
    ELSE IF QLe(<<5, 2>>, avg_score) /\ QLt(avg_score, <<9, 2>>)
    THEN "Likely Benign"
    ELSE "Benign"

RECURSIVE QSum(_)
QSum(list) == IF list = <<>> THEN <<0, 1>> ELSE QAdd(Head(list), QSum(Tail(list)))

\* np.mean(all_scores); "nan" for the empty list
mean(all_scores) ==
    IF all_scores = <<>> THEN <<"nan">>
    ELSE LET t == QSum(all_scores) IN Q(t[1], t[2] * Len(all_scores))

---------------------------------------------------------------------------
(* distrib.py: run_analysis.  The text of the gene field is a tuple of      *)
(* tokens: a gene symbol as typed, a comma or a blank.                     *)

GeneTokens == {"MYO7A", "USH2A", "myo7a", ",", " "}

GeneTexts == UNION {[1..n -> GeneTokens] : n \in 0..MaxTokens}

\* str.split(",")
RECURSIVE split(_)
split(t) ==
    IF \E i \in 1..Len(t) : t[i] = ","
    THEN LET i == CHOOSE j \in 1..Len(t) :
                      t[j] = "," /\ \A k \in 1..(j - 1) : t[k] # ","
         IN  <<SubSeq(t, 1, i - 1)>> \o split(SubSeq(t, i + 1, Len(t)))
    ELSE <<t>>

\* "gene in data": the text is exactly one of the keys
InData(gene) == Len(gene) = 1 /\ gene[1] \in DOMAIN data

RECURSIVE SumDensities(_)
SumDensities(genes) ==
    IF genes = <<>> THEN Zeros5
    ELSE LET rd == calculate_gene_score(data[Head(genes)[1]]).relative_density
             rest == SumDensities(Tail(genes))
         IN  [i \in 1..5 |-> QAdd(rd[i], rest[i])]

\* f"{x:.2f}": the score in hundredths, rounded; <<"nan">> prints as nan
Format2(x) ==
    IF x = <<"nan">> THEN <<"nan">>
    ELSE LET d == x[2]
             r0 == x[1] % d
             r1 == (10 * r0) % d
             r2 == (10 * r1) % d
         IN  <<100 * (x[1] \div d) + 10 * ((10 * r0) \div d) + (10 * r1) \div d
                   + (IF 2 * r2 >= d THEN 1 ELSE 0)>>

\* run_analysis without the check for an empty valid_genes
GoesOnWhenNoneValid(valid_genes) == FALSE

\* "if not valid_genes:"
StopsWhenNoneValid(valid_genes) == valid_genes = <<>>

GeneInit ==
    /\ gene_entry \in GeneTexts
    /\ result_label = <<>>
    /\ plot = <<>>
    /\ gene_msg = ""

GeneIdle ==
    /\ gene_entry = <<>>
    /\ result_label = <<>>
    /\ plot = <<>>
    /\ gene_msg = ""

\* the user edits the gene field
TypeGenes(t) ==
    /\ gene_entry' = t
    /\ gene_entry # t
    /\ UNCHANGED <<result_label, plot, gene_msg>>

\* the click on "Calculate"
Calculate ==
    LET selected_genes == split(strip(gene_entry))
        stripped == [i \in 1..Len(selected_genes) |-> strip(selected_genes[i])]
        valid_genes == SelectSeq(stripped, InData)
        all_scores == [i \in 1..Len(valid_genes) |->
                         calculate_gene_score(data[valid_genes[i][1]]).avg_score]
        overall_avg_score == mean(all_scores)
        final_category ==
            IF overall_avg_score = <<"nan">> THEN "Benign"
            ELSE interpret_score(overall_avg_score)
    IN  IF StopsWhenNoneValid(valid_genes)
        THEN /\ gene_msg' = "No valid genes selected. Please check your input."
             /\ UNCHANGED <<gene_entry, result_label, plot>>
        ELSE /\ result_label' = <<Format2(overall_avg_score), final_category>>
             /\ plot' = [bars |-> SumDensities(valid_genes), title |-> valid_genes]
             /\ gene_msg' = ""
             /\ UNCHANGED gene_entry

---------------------------------------------------------------------------
(* Direct calls of calculate_gene_score, np.mean and interpret_score.      *)

NonZero(t) == Cardinality({i \in 1..5 : t[i] # 0})

\* count tuples with at most two categories populated, and the two of data
GeneTuples ==
    {t \in [1..5 -> 0..MaxCount] : NonZero(t) <= 2}
        \cup {data[g] : g \in DOMAIN data}

ScoreInit ==
    sc = [tuples |-> <<>>, all_scores |-> <<>>, overall |-> <<>>, category |-> ""]

ScoreGene(t) ==
    /\ sc.category = ""
    /\ Len(sc.all_scores) < MaxGenes
    /\ sc' = [sc EXCEPT
                !.tuples = Append(@, t),
                !.all_scores = Append(@, calculate_gene_score(t).avg_score)]

Interpret ==
    /\ sc.category = ""
    /\ sc.all_scores # <<>>
    /\ sc' = [sc EXCEPT !.overall = mean(sc.all_scores),
                        !.category = interpret_score(mean(sc.all_scores))]

---------------------------------------------------------------------------
(* The specifications. *)

Init == CaddInit /\ PartIdle /\ GeneIdle /\ ScoreInit

\* the user clicks "Run Analysis"
Click == RunAnalysis /\ UNCHANGED <<part, geneVars, sc>>

\* the steps of a retrieval under way: the GUI thread inside run_analysis and
\* the worker threads of the pool
Retrieval ==
    \/ (\E c \in DOMAIN fut : Submit(c)) /\ UNCHANGED <<part, geneVars, sc>>
    \/ (\E c \in DOMAIN fut : StartFetch(c)) /\ UNCHANGED <<part, geneVars, sc>>
    \/ (\E c \in DOMAIN fut : FinishFetch(c)) /\ UNCHANGED <<part, geneVars, sc>>
    \/ (\E c \in DOMAIN fut : Collect(c)) /\ UNCHANGED <<part, geneVars, sc>>
    \/ Return /\ UNCHANGED <<part, geneVars, sc>>
    \/ Propagate /\ UNCHANGED <<part, geneVars, sc>>
    \/ ShowResults /\ UNCHANGED <<part, geneVars, sc>>

Next == Click \/ Retrieval

Spec == Init /\ [][Next]_vars

\* once a run is under way the GUI thread keeps running, the workers keep
\* taking queued calls and every request ends; the click itself is up to
\* the user
FairSpec == Spec /\ WF_vars(Retrieval)

PartNext == PartitionCall /\ UNCHANGED <<caddVars, geneVars, sc>>

\* the CADD window as constructed, nothing typed and nothing clicked
CaddUnused ==
    /\ chrom_entry = <<>>
    /\ start_entry = <<>>
    /\ end_entry = <<>>
    /\ remote = Rich
    /\ CaddIdle

PartSpecInit == CaddUnused /\ PartInit /\ GeneIdle /\ ScoreInit

PartSpec == PartSpecInit /\ [][PartNext]_vars

GeneNext ==
    \/ (\E t \in GeneTexts : TypeGenes(t)) /\ UNCHANGED <<caddVars, part, sc>>
    \/ Calculate /\ UNCHANGED <<caddVars, part, sc>>

GeneSpecInit == CaddUnused /\ PartIdle /\ GeneInit /\ ScoreInit

GeneSpec == GeneSpecInit /\ [][GeneNext]_vars

ScoreNext ==
    \/ (\E t \in GeneTuples : ScoreGene(t)) /\ UNCHANGED <<caddVars, part, geneVars>>
    \/ Interpret /\ UNCHANGED <<caddVars, part, geneVars>>

ScoreSpecInit == CaddUnused /\ PartIdle /\ GeneIdle /\ ScoreInit

ScoreSpec == ScoreSpecInit /\ [][ScoreNext]_vars

---------------------------------------------------------------------------
(* Vocabulary of the properties. *)

\* control has left query_large_range, by return or by exception
QueryLeft == pc \in {"returned", "done", "raised"}

\* a row of an answer that can be read as two floats
RowReadable(row) == Len(row) >= 6 /\ row[5].num /\ row[6].num

AnswerRows(c) == IF outcome[c].data = <<>> THEN <<>> ELSE Tail(outcome[c].data)

\* a chunk whose fetch failed: the request raised, the status was not 200,
\* or a row of the answer cannot be read
FetchFailed(c) ==
    \/ outcome[c].exc # ""
    \/ outcome[c].none
    \/ \E k \in 1..Len(AnswerRows(c)) : ~RowReadable(AnswerRows(c)[k])

FailedChunks == {c \in DOMAIN fut : fut[c] = "finished" /\ FetchFailed(c)}

SucceededChunks == {c \in DOMAIN fut : fut[c] = "finished" /\ ~FetchFailed(c)}

\* what query_large_range returned after its two series
ReturnedFailures == SubSeq(ret, 3, Len(ret))

\* the records of the chunks fetched without failure, as <<chunk, Pos>>
RecordsOf(c) == {<<c, AnswerRows(c)[k][2].v>> : k \in 1..Len(AnswerRows(c))}

Records == UNION {RecordsOf(c) : c \in SucceededChunks}

\* the row a series item came from
RowFor(src) ==
    CHOOSE row \in {AnswerRows(src[1])[k] : k \in 1..Len(AnswerRows(src[1]))} :
        row[2].v = src[2]

Paired(raw, phred) ==
    /\ Len(raw) = Len(phred)
    /\ \A i \in 1..Len(raw) :
          /\ raw[i].src = phred[i].src
          /\ raw[i].src \in RecordsOf(raw[i].src[1])
          /\ raw[i].v = RowFor(raw[i].src)[5].v
          /\ phred[i].v = RowFor(raw[i].src)[6].v

---------------------------------------------------------------------------
(* C1: whatever way the fetch of a chunk fails, the batch is not aborted,  *)
(* nothing is raised to the caller, and the retrieval returns the series   *)
(* of the chunks that succeeded together with a failure list holding one   *)
(* entry per failed chunk.                                                 *)
C1_PartialFailureTolerance ==
    /\ pc \notin {"unwind", "raised"}
    /\ pc = "returned" =>
          /\ Len(ReturnedFailures) = Cardinality(FailedChunks)
          /\ {ret[1][i].src : i \in 1..Len(ret[1])} = Records

---------------------------------------------------------------------------
(* C2: for start < end and chunk_size > 0 the chunks are ascending, start  *)
(* at start, each ends where the next starts, the last ends at end, each   *)
(* is non-empty and no longer than chunk_size, there are                   *)
(* ceil((end - start) / chunk_size) of them, and an interval no longer     *)
(* than chunk_size gives the one chunk equal to it.                        *)
C2_Partition ==
    (part.called /\ part.start < part.end) =>
        LET c == part.chunks
            n == Len(c)
        IN  /\ n = (part.end - part.start + part.size - 1) \div part.size
            /\ n >= 1
            /\ c[1][2] = part.start
            /\ c[n][3] = part.end
            /\ \A i \in 1..n :
                  /\ c[i][2] < c[i][3]
                  /\ c[i][3] - c[i][2] <= part.size
                  /\ i < n => (c[i][3] = c[i + 1][2] /\ c[i][2] < c[i + 1][2])
            /\ part.end - part.start <= part.size =>
                  c = << <<c[1][1], part.start, part.end>> >>

\* three chunks, the last one shorter than chunk_size
C2_Witness ==
    /\ part.called
    /\ Len(part.chunks) = 3
    /\ part.chunks[3][3] - part.chunks[3][2] < part.size

---------------------------------------------------------------------------
(* C3: in whatever order the fetches complete, the two series of           *)
(* query_large_range have equal length and item i of both comes from one   *)
(* and the same record, whose raw and PHRED fields they are.               *)
C3_Pairing ==
    /\ pc = "collect" => Paired(raw_scores, phred_scores)
    /\ pc = "returned" => Paired(ret[1], ret[2])

\* two chunks with records, merged in the reverse of chunk order
C3_Witness ==
    /\ pc = "returned"
    /\ Len(ret[1]) = 4
    /\ ret[1][1].src[1] = 2
    /\ ret[2][3].src[1] = 1

---------------------------------------------------------------------------
(* C4: control leaves query_large_range (by return or by a propagating     *)
(* exception) only when every dispatched fetch has finished, and once the  *)
(* retrieval has started it does leave, every fetch ending.                *)
C4_NoEarlyReturn ==
    /\ [](QueryLeft => AllFinished(fut))
    /\ (pc \in {"submit", "collect", "unwind"}) ~> (pc \in {"returned", "raised"})

\* the retrieval returned after two or more fetches, one of them failed
C4_Witness ==
    /\ pc = "returned"
    /\ Len(fut) >= 2
    /\ FailedChunks # {}

---------------------------------------------------------------------------
(* C5: at most max_workers (10) fetches are in flight at any moment; a     *)
(* chunk beyond the first ten starts only when a fetch has finished and a  *)
(* worker is free; and every queued chunk is eventually started.           *)
C5_BoundedConcurrency ==
    /\ [](Cardinality(Running(fut)) <= max_workers)
    /\ [][\A c \in DOMAIN fut :
            (fut[c] = "queued" /\ fut'[c] = "running" /\ c > max_workers) =>
                /\ Cardinality(Running(fut)) < max_workers
                /\ \E d \in DOMAIN fut : fut[d] = "finished"]_vars
    /\ (\E c \in DOMAIN fut : fut[c] = "queued")
          ~> (\A c \in DOMAIN fut : fut[c] \in {"running", "finished"})

\* the pool is full again after a chunk beyond the tenth took a freed worker
C5_Witness ==
    /\ Cardinality(Running(fut)) = max_workers
    /\ \E c \in DOMAIN fut : c > max_workers /\ fut[c] = "running"
    /\ \E c \in DOMAIN fut : fut[c] = "finished"

---------------------------------------------------------------------------
(* C6: a run given an invalid interval (an empty field, a start or end     *)
(* that is no integer, or start >= end) is rejected with a message and     *)
(* dispatches no fetch.                                                    *)
InvalidInterval ==
    \/ strip(chrom_entry) = <<>>
    \/ ~int(start_entry).ok
    \/ ~int(end_entry).ok
    \/ int(start_entry).val >= int(end_entry).val

C6_InvalidRejected ==
    (pc # "idle" /\ InvalidInterval) =>
        /\ msgbox # ""
        /\ \A c \in DOMAIN fut : fut[c] = "new"

---------------------------------------------------------------------------
(* C7: a run that ends with both series empty, every chunk having given    *)
(* no record or having failed, shows "No variants found"; no absent mean   *)
(* is formatted and nothing is raised.                                     *)
C7_EmptyResult ==
    /\ (pc \in {"done", "raised"} /\ chunks # <<>>
            /\ raw_scores = <<>> /\ phred_scores = <<>>) =>
          /\ pc = "done"
          /\ result_text[Len(result_text)].line =
                 "No variants found in the specified range."
    /\ pending # "TypeError"

---------------------------------------------------------------------------
(* C8: in distrib.run_analysis a key that is not in the dataset after      *)
(* trimming (exact, case-sensitive) is left out of valid_genes and adds    *)
(* nothing to the summed densities or the scores; when no key is in the    *)
(* dataset the run reports it and leaves the result display untouched.     *)
ExpectedKeys(text) ==
    LET items == split(strip(text))
        trimmed == [i \in 1..Len(items) |-> strip(items[i])]
        IsKey(g) == g \in {<<"MYO7A">>, <<"USH2A">>}
    IN  SelectSeq(trimmed, IsKey)

RECURSIVE ExpectedBars(_)
ExpectedBars(keys) ==
    IF keys = <<>> THEN Zeros5
    ELSE LET rd == calculate_gene_score(data[Head(keys)[1]]).relative_density
             rest == ExpectedBars(Tail(keys))
         IN  [i \in 1..5 |-> QAdd(rd[i], rest[i])]

ExpectedScores(keys) ==
    [i \in 1..Len(keys) |-> calculate_gene_score(data[keys[i][1]]).avg_score]

C8_UnknownKeys ==
    [][gene_entry' = gene_entry =>
          LET keys == ExpectedKeys(gene_entry)
          IN  IF keys = <<>>
              THEN /\ gene_msg' = "No valid genes selected. Please check your input."
                   /\ result_label' = result_label
                   /\ plot' = plot
              ELSE /\ gene_msg' = ""
                   /\ plot'.title = keys
                   /\ plot'.bars = ExpectedBars(keys)
                   /\ result_label'[1] = Format2(mean(ExpectedScores(keys)))]_vars

\* after a result for MYO7A was shown, a key in small letters is refused and
\* the result stays on display
C8_Witness ==
    /\ gene_entry = <<" ", "myo7a">>
    /\ gene_msg # ""
    /\ result_label # <<>>
    /\ plot.title = << <<"MYO7A">> >>

---------------------------------------------------------------------------
(* C9: when query_large_range returns, each series holds every record of   *)
(* every successfully fetched chunk exactly once and nothing else; no      *)
(* chunk is fetched twice and no record of a failed chunk appears.         *)
ExactlyOnce(series) ==
    /\ {series[i].src : i \in 1..Len(series)} = Records
    /\ Len(series) = Cardinality(Records)

C9_ExactlyOnceMerge ==
    /\ [](pc = "returned" => (ExactlyOnce(ret[1]) /\ ExactlyOnce(ret[2])))
    /\ [][\A c \in DOMAIN fut :
            /\ fut[c] = "running" => fut'[c] \in {"running", "finished"}
            /\ fut[c] = "finished" => (fut'[c] = "finished" /\ outcome'[c] = outcome[c])
            /\ c \in yielded => (c \in yielded' \/ pc' = "unwind")]_vars

\* one chunk failed with a status other than 200, another gave two records
C9_Witness ==
    /\ pc = "returned"
    /\ printed # {}
    /\ Len(ret[1]) = 2
    /\ Len(fut) = 3

---------------------------------------------------------------------------
(* C10: calculate_gene_score gives a score in [1, 10]: the weighted sum    *)
(* of the densities with weights 1, 2, 5, 8, 10, or 5 for a tuple of       *)
(* total 0; the mean of such scores is in [1, 10] and interpret_score      *)
(* names the band that holds it, "Benign" only below 2.5.                  *)
InRange(x) == QLe(<<1, 1>>, x) /\ QLe(x, <<10, 1>>)

Band(x) ==
    CASE 2 * x[1] >= 17 * x[2] /\ x[1] <= 10 * x[2] -> "Pathogenic"
      [] 2 * x[1] >= 13 * x[2] /\ 2 * x[1] < 17 * x[2] -> "Likely Pathogenic"
      [] 2 * x[1] >= 9 * x[2] /\ 2 * x[1] < 13 * x[2] -> "Uncertain/Conflicting"
      [] 2 * x[1] >= 5 * x[2] /\ 2 * x[1] < 9 * x[2] -> "Likely Benign"
      [] 2 * x[1] < 5 * x[2] -> "Benign"
      [] OTHER -> "no band"

C10_ScoreBands ==
    /\ \A i \in 1..Len(sc.tuples) :
          LET t == sc.tuples[i]
              total == t[1] + t[2] + t[3] + t[4] + t[5]
              x == sc.all_scores[i]
          IN  /\ InRange(x)
              /\ total = 0 => x = <<5, 1>>
              /\ total > 0 =>
                    x[1] * total =
                        x[2] * (t[1] + 2 * t[2] + 5 * t[3] + 8 * t[4] + 10 * t[5])
    /\ sc.category # "" =>
          /\ InRange(sc.overall)
          /\ sc.category = Band(sc.overall)

\* the sentinel 5 of an empty tuple averaged with a purely pathogenic one
C10_Witness ==
    /\ sc.category = "Likely Pathogenic"
    /\ Len(sc.tuples) = 2
    /\ sc.tuples[1] = <<0, 0, 0, 0, 0>>

===========================================================================
